---- MODULE Spec2Model ----
(***************************************************************************)
(* issue-backup: the fetcher (fetch_issues.py) and the composer            *)
(* (compose_threads.py) as one state machine over the remote tracker, the  *)
(* record tree on disk and the two metadata files.                         *)
(*                                                                         *)
(* Timestamps of the tracker (updated_at, last_fetch) are modelled as the  *)
(* value of a clock that never runs backwards; the code compares them as   *)
(* ISO-8601 strings of one fixed width, which orders them as the clock     *)
(* does.  Both jobs are sequential batch processes; they are never run at  *)
(* the same time against one tree.                                         *)
(***************************************************************************)
EXTENDS Integers, Sequences, FiniteSets, TLC

\* ------------------------------------------------------------------ bounds
\* The clock runs from 1 to MaxClock (0 is the epoch, '1970-01-01T00:00:00Z').
MaxClock == 3
\* The page size of the tracker, scaled from per_page=100 to the model's issues.
PerPage == 1
\* The longest comment list an issue of the model carries.
MaxComments == 1
\* The most changes made to the tree between and before compose runs.
MaxChanges == 3
\* The longest comments.json array of the rendering specification.
MaxRendered == 2

\* -------------------------------------------------------------- environment
Issues == {1, 2}
\* VALID_LABELS as read from the environment (fetch_issues.py).
VALID_LABELS == {"faro", "bug"}
\* The label sets an issue of the tracker may carry.
LabelSets == {{"faro"}, {"bug"}}

TitleSlugA == <<"[", "a", "]", "x">>
TitlePlain == <<"x", "[", "]">>
Titles == {TitleSlugA, TitlePlain}

\* A timestamp in the wire format, and one that is not.
WireStamp == <<"2024-01-01", "T", "00:00:00", "Z">>
OtherStamp == <<"2024-01-01", " ", "00:00:00">>
\* A later timestamp in the wire format.
LaterStamp == <<"2024-01-02", "T", "00:00:00", "Z">>

None == "none"
EpochStamp == 0

VARIABLES
  clock,        \* the wall clock, in whole seconds
  remote,       \* the tracker: issue -> [updated_at, title, labels, comments]
  lateChange,   \* the tracker changed after the last completed fetch run, in the second it ended
  issueFiles,   \* directory -> the payload in its issue.json
  commentFiles, \* directory -> the list in its comments.json
  threadFiles,  \* directory -> the text of its thread.md
  fetchStore,   \* .fetch_metadata.json: <<>> while it does not exist, else <<content>>
  composeStore, \* .compose_metadata.json, likewise
  fpc,          \* where the fetcher is
  metadata,     \* the fetcher's in-memory metadata
  labelsLeft,   \* the labels main has still to process
  label,        \* the label fetch_and_process_issues runs for
  page,         \* its page counter
  batch,        \* the issues of the page that are still to be processed
  call,         \* the process_issue call that has just returned, <<>> otherwise
  status,       \* the status of the run's last page response, 0 before the first
  commentsFailed, \* <<label, number, updated_at>> of the issues whose last comment request failed
  cpc,          \* where the composer is
  cmeta,        \* the composer's in-memory metadata
  walkLabels,   \* the labels process_all_threads has still to walk
  todo,         \* the issue directories of the current label still to visit
  directory,    \* the directory compose_thread is called with
  visited,      \* the directories passed to compose_thread in this run
  wrote,        \* the directories whose thread.md this run wrote
  dirty,        \* an issue.json or comments.json changed since the last completed compose run
  cleanStart,   \* this compose run started with dirty false
  changes       \* how often the tree was changed from outside the composer

envVars == <<clock, remote, lateChange>>
treeVars == <<issueFiles, commentFiles>>
fetchVars == <<fpc, metadata, labelsLeft, label, page, batch, call, status,
               commentsFailed>>
composeVars == <<cpc, cmeta, walkLabels, todo, directory, visited, wrote, cleanStart>>
composeOut == <<threadFiles, composeStore, changes>>
vars == <<clock, remote, lateChange, issueFiles, commentFiles, threadFiles, fetchStore,
          composeStore, fpc, metadata, labelsLeft, label, page, batch, call,
          status, commentsFailed, cpc, cmeta, walkLabels, todo, directory, visited, wrote, dirty,
          cleanStart, changes>>

\* ------------------------------------------------------------------ helpers
Max(S) == CHOOSE x \in S : \A y \in S : y <= x

\* f with key k set to v, k added to the domain when it is new.
Put(f, k, v) == [x \in DOMAIN f \cup {k} |-> IF x = k THEN v ELSE f[x]]

EmptyMap == [x \in {} |-> None]

\* The elements of a set of integers as a sequence, largest first.
RECURSIVE Descending(_)
Descending(S) ==
  IF S = {} THEN <<>> ELSE <<Max(S)>> \o Descending(S \ {Max(S)})

\* ------------------------------------------------------------- the tracker
Exists(i) == remote[i].updated_at > EpochStamp

\* The issue object the API returns for issue i.
Payload(i) ==
  [number |-> i,
   title |-> remote[i].title,
   labels |-> remote[i].labels,
   created_at |-> WireStamp,
   updated_at |-> remote[i].updated_at,
   comments |-> Len(remote[i].comments)]

\* GET /issues?state=all&labels=l&since=s: the issues carrying l that were
\* updated at or after s, newest issue first.
Matching(l, since) ==
  {i \in Issues : Exists(i) /\ l \in remote[i].labels /\ remote[i].updated_at >= since}

PageOf(l, since, p) ==
  LET all == Descending(Matching(l, since))
      lo == (p - 1) * PerPage + 1
      hi == IF p * PerPage < Len(all) THEN p * PerPage ELSE Len(all)
  IN [k \in 1..(IF hi >= lo THEN hi - lo + 1 ELSE 0) |-> Payload(all[lo + k - 1])]

\* No job is running: the two jobs are never run at the same time.
FetcherStopped == fpc = "idle"

\* The fetcher's process is not in the middle of its exit.
NotExiting == fpc \notin {"done", "aborted"}

ComposerStopped == cpc = "idle"

\* The last completed fetch run ended in the current second.
InSecondOfLastRun == fetchStore # <<>> /\ fetchStore[1].last_fetch = clock

Tick ==
  /\ ComposerStopped
  /\ NotExiting
  /\ clock < MaxClock
  /\ clock' = clock + 1
  /\ UNCHANGED <<remote, lateChange, treeVars, fetchStore, fetchVars, composeVars, composeOut, dirty>>

\* An issue is opened or edited: its title is set and updated_at moves to now.
RemoteEdit(i, t) ==
  /\ ComposerStopped
  /\ NotExiting
  /\ remote[i].updated_at < clock
  /\ remote' = [remote EXCEPT ![i].title = t, ![i].updated_at = clock]
  /\ lateChange' = InSecondOfLastRun
  /\ UNCHANGED <<clock, treeVars, fetchStore, fetchVars, composeVars, composeOut, dirty>>

\* A comment is added to an issue.
RemoteComment(i) ==
  /\ ComposerStopped
  /\ NotExiting
  /\ Exists(i)
  /\ remote[i].updated_at < clock
  /\ Len(remote[i].comments) < MaxComments
  /\ remote' = [remote EXCEPT
       ![i].comments = Append(@, [id |-> Len(@) + 1, created_at |-> WireStamp]),
       ![i].updated_at = clock]
  /\ lateChange' = InSecondOfLastRun
  /\ UNCHANGED <<clock, treeVars, fetchStore, fetchVars, composeVars, composeOut, dirty>>

\* The newest comment of an issue is deleted.
RemoteDeleteComment(i) ==
  /\ ComposerStopped
  /\ NotExiting
  /\ remote[i].updated_at < clock
  /\ remote[i].comments # <<>>
  /\ remote' = [remote EXCEPT
       ![i].comments = SubSeq(@, 1, Len(@) - 1),
       ![i].updated_at = clock]
  /\ lateChange' = InSecondOfLastRun
  /\ UNCHANGED <<clock, treeVars, fetchStore, fetchVars, composeVars, composeOut, dirty>>

\* ------------------------------------------------------------- the fetcher
DefaultMetadata == [last_fetch |-> EpochStamp, issues |-> EmptyMap]

\* The store file not read: the run starts from the default.
StoreNotLoaded == DefaultMetadata

\* load_metadata(): the store file, or the default without one.
load_metadata == IF fetchStore = <<>> THEN DefaultMetadata ELSE fetchStore[1]

SlugChars == {"a", "b", "x", "-", "_"}

Unknown == <<"u", "n", "k", "n", "o", "w", "n">>

\* re.search(r'\[([\w-]+)\]', title): the leftmost "[", one or more word
\* characters or hyphens, "]".
SlugMatches(title) ==
  {m \in (1..Len(title)) \X (1..Len(title)) :
     /\ title[m[1]] = "["
     /\ title[m[2]] = "]"
     /\ m[2] > m[1] + 1
     /\ \A k \in (m[1] + 1)..(m[2] - 1) : title[k] \in SlugChars}

extract_slug(title) ==
  IF SlugMatches(title) = {} THEN Unknown
  ELSE LET m == CHOOSE x \in SlugMatches(title) :
                  \A y \in SlugMatches(title) : x[1] <= y[1]
       IN SubSeq(title, m[1] + 1, m[2] - 1)

IssueKey(l, issue) == <<l, issue.number>>

IssueDir(l, issue) == <<l, extract_slug(issue.title), issue.number>>

\* The test with < for <=: an issue whose updated_at equals the watermark is
\* fetched again.
NeedsUpdateStrict(issue, l, meta) ==
  ~ (/\ IssueKey(l, issue) \in DOMAIN meta.issues
     /\ issue.updated_at < meta.issues[IssueKey(l, issue)].updated_at)

\* The test left out: every issue of a page is written.
AlwaysNeedsUpdate(issue, l, meta) == TRUE

\* process_issue's "needs updating" test.
NeedsUpdate(issue, l, meta) ==
  ~ (/\ IssueKey(l, issue) \in DOMAIN meta.issues
     /\ issue.updated_at <= meta.issues[IssueKey(l, issue)].updated_at)

\* fetch_comments: the list of the tracker, or [] after a failed request.
Failed == [ok |-> FALSE, list |-> <<>>]

CommentOutcomes(i) == {Failed, [ok |-> TRUE, list |-> remote[i].comments]}

FetchedList(outcome) == IF outcome.ok THEN outcome.list ELSE <<>>

\* Whether process_issue requests the comments of an issue it updates.
WantsComments(issue) == issue.comments > 0

\* Whether process_issue writes comments.json with what fetch_comments returned.
WritesComments(issue, outcome) ==
  WantsComments(issue) /\ FetchedList(outcome) # <<>>

\* issue.json not written.
IssueFilesKept(issue, l) == issueFiles

\* json.dump(issue) to directory/issue.json.
IssueFilesAfter(issue, l) == Put(issueFiles, IssueDir(l, issue), issue)

CommentFilesAfter(issue, l, outcome) ==
  IF WritesComments(issue, outcome)
    THEN Put(commentFiles, IssueDir(l, issue),
             [list |-> FetchedList(outcome), fetched_for |-> issue.updated_at])
    ELSE commentFiles

\* The watermark left as it was.
WatermarkKept(issue, l, meta) == meta

\* metadata['issues'][issue_key] = {updated_at, path}.
WatermarkAfter(issue, l, meta) ==
  [meta EXCEPT !.issues =
     Put(@, IssueKey(l, issue),
         [updated_at |-> issue.updated_at, path |-> IssueDir(l, issue)])]

\* The issues whose last comment request failed, after process_issue wrote
\* this one.
CommentsFailedAfter(issue, l, outcome) ==
  {x \in commentsFailed : ~ (x[1] = l /\ x[2] = issue.number)}
    \cup (IF WantsComments(issue) /\ ~ outcome.ok
            THEN {<<l, issue.number, issue.updated_at>>} ELSE {})

\* process_issue(issue, label, metadata), the comment request answered by outcome.
process_issue(issue, l, outcome) ==
  IF ~ NeedsUpdate(issue, l, metadata)
    THEN /\ UNCHANGED <<issueFiles, commentFiles, metadata, dirty, commentsFailed>>
         /\ call' = <<[issue |-> issue, label |-> l, skipped |-> TRUE,
                       writes |-> {}, requested |-> FALSE, outcome |-> Failed]>>
    ELSE /\ issueFiles' = IssueFilesAfter(issue, l)
         /\ commentFiles' = CommentFilesAfter(issue, l, outcome)
         /\ metadata' = WatermarkAfter(issue, l, metadata)
         /\ commentsFailed' = CommentsFailedAfter(issue, l, outcome)
         /\ dirty' = TRUE
         /\ call' = <<[issue |-> issue, label |-> l, skipped |-> FALSE,
                       writes |-> {"issue.json"} \cup
                                  (IF WritesComments(issue, outcome)
                                     THEN {"comments.json"} ELSE {}),
                       requested |-> WantsComments(issue),
                       outcome |-> IF WantsComments(issue) THEN outcome ELSE Failed]>>

\* main: load_metadata, then the loop over VALID_LABELS.
StartFetch ==
  /\ FetcherStopped
  /\ ComposerStopped
  /\ fpc' = "main"
  /\ metadata' = load_metadata
  /\ labelsLeft' = VALID_LABELS
  /\ call' = <<>>
  /\ status' = 0
  /\ UNCHANGED <<envVars, treeVars, fetchStore, label, page, batch, commentsFailed,
                 composeVars, composeOut, dirty>>

\* main's loop takes the next label (a set is iterated in no fixed order).
NextLabel ==
  /\ fpc = "main"
  /\ \E l \in labelsLeft :
       /\ label' = l
       /\ labelsLeft' = labelsLeft \ {l}
  /\ page' = 1
  /\ fpc' = "request"
  /\ UNCHANGED <<envVars, treeVars, fetchStore, metadata, batch, call, status,
                 commentsFailed,
                 composeVars, composeOut, dirty>>

\* What main writes after the loop.
FinalMetadata(meta, now) == [meta EXCEPT !.last_fetch = now]

\* main after the last label: last_fetch is set to now and the store is saved.
FinishFetch ==
  /\ fpc = "main"
  /\ labelsLeft = {}
  /\ fetchStore' = <<FinalMetadata(metadata, clock)>>
  /\ fpc' = "done"
  /\ metadata' = DefaultMetadata
  /\ lateChange' = FALSE
  /\ UNCHANGED <<clock, remote, treeVars, labelsLeft, label, page, batch, call, status,
                 commentsFailed,
                 composeVars, composeOut, dirty>>

\* The store saved on the way out, as a try/finally around main's loop would.
StoreSavedOnAbort(meta, now) == <<FinalMetadata(meta, now)>>

\* The store file after sys.exit(1) inside fetch_and_process_issues.
StoreAfterAbort(meta, now) == fetchStore

\* The statuses fetch_and_process_issues tests for, and one that
\* raise_for_status turns into a RequestException.
FatalStatuses == {401, 403}

FailureStatuses == FatalStatuses \cup {500}

\* A failed page request taken as the end of the label's pages.
BreaksOnFailure(s) == "main"

\* Where the fetcher is after a failed page request: sys.exit(1).
AfterFailure(s) == "aborted"

\* The exit status of the fetcher's process, <<>> while it runs.
ExitStatus ==
  IF fpc = "aborted" THEN <<1>> ELSE IF fpc = "done" THEN <<0>> ELSE <<>>

\* A page request answered 401 or 403, or failing with another status, in
\* transport or in decoding: sys.exit(1).
PageFails ==
  /\ fpc = "request"
  /\ \E s \in FailureStatuses :
       /\ status' = s
       /\ fpc' = AfterFailure(s)
  /\ fetchStore' = StoreAfterAbort(metadata, clock)
  /\ metadata' = IF fpc' = "aborted" THEN DefaultMetadata ELSE metadata
  /\ call' = <<>>
  /\ UNCHANGED <<envVars, treeVars, labelsLeft, label, page, batch, commentsFailed,
                 composeVars, composeOut, dirty>>

\* The fetcher's process ends, after save_metadata or by sys.exit(1).
FetcherExits ==
  /\ fpc \in {"done", "aborted"}
  /\ fpc' = "idle"
  /\ labelsLeft' = {}
  /\ label' = None
  /\ page' = 1
  /\ batch' = <<>>
  /\ call' = <<>>
  /\ status' = 0
  /\ UNCHANGED <<envVars, treeVars, fetchStore, metadata, commentsFailed,
                 composeVars, composeOut, dirty>>

\* A page request answered 200: an empty page ends the label, any other is
\* processed issue by issue.
PageArrives ==
  /\ fpc = "request"
  /\ LET got == PageOf(label, metadata.last_fetch, page)
     IN /\ batch' = got
        /\ fpc' = IF got = <<>> THEN "main" ELSE "batch"
  /\ call' = <<>>
  /\ status' = 200
  /\ UNCHANGED <<envVars, treeVars, fetchStore, metadata, labelsLeft, label,
                 page, commentsFailed, composeVars, composeOut, dirty>>

\* A page request answered 200 by a replica of the tracker that lags behind
\* what this client has stored: one issue of the page carries an updated_at
\* older than the tracker's and not newer than the watermark the run holds
\* for it.
StalePageArrives ==
  /\ fpc = "request"
  /\ LET got == PageOf(label, metadata.last_fetch, page)
     IN \E k \in 1..Len(got) :
          /\ IssueKey(label, got[k]) \in DOMAIN metadata.issues
          /\ \E u \in 1..(got[k].updated_at - 1) :
               /\ u <= metadata.issues[IssueKey(label, got[k])].updated_at
               /\ batch' = [got EXCEPT ![k].updated_at = u]
  /\ fpc' = "batch"
  /\ call' = <<>>
  /\ status' = 200
  /\ UNCHANGED <<envVars, treeVars, fetchStore, metadata, labelsLeft, label,
                 page, commentsFailed, composeVars, composeOut, dirty>>

\* The page requested again.
SamePage(p) == p

\* page += 1 after the batch.
NextPage(p) == p + 1

\* The loop over the batch: process_issue for its next issue.
ProcessNext ==
  /\ fpc = "batch"
  /\ \E outcome \in CommentOutcomes(Head(batch).number) :
       process_issue(Head(batch), label, outcome)
  /\ batch' = Tail(batch)
  /\ IF Tail(batch) = <<>>
       THEN page' = NextPage(page) /\ fpc' = "request"
       ELSE UNCHANGED <<page, fpc>>
  /\ UNCHANGED <<envVars, fetchStore, labelsLeft, label, status, composeVars, composeOut>>


\* The comment list of n comments, as the comments endpoint returns it.
CommentList(n) == [k \in 1..n |-> [id |-> k, created_at |-> WireStamp]]

\* ------------------------------------------------------------ the composer
\* The label roots process_all_threads walks, in its order.
ComposeLabels == <<"faro", "app-o11y">>

NoDirectory == <<"", <<>>, 0>>

\* hashlib.sha256 of a file's bytes, "" for a file that does not exist; the
\* digest stands for the bytes it was computed from (no collisions).
IssueBytes(d) == issueFiles[d]

CommentBytes(d) == commentFiles[d].list

get_content_hash(exists, bytes) == IF exists THEN <<"sha256", bytes>> ELSE <<>>

current_hashes(d) ==
  [issue |-> IF d \in DOMAIN issueFiles
               THEN get_content_hash(TRUE, IssueBytes(d))
               ELSE get_content_hash(FALSE, <<>>),
   comments |-> IF d \in DOMAIN commentFiles
                  THEN get_content_hash(TRUE, CommentBytes(d))
                  ELSE get_content_hash(FALSE, <<>>)]

load_compose_metadata == IF composeStore = <<>> THEN EmptyMap ELSE composeStore[1]

\* datetime.strptime(date_str, "%Y-%m-%dT%H:%M:%SZ") accepts the string.
IsWireFormat(stamp) == Len(stamp) = 4 /\ stamp[2] = "T" /\ stamp[4] = "Z"

format_date(stamp) == <<stamp[1], " ", stamp[3], " UTC">>

\* The comments compose_thread reads: those of comments.json, none without it.
CommentsOf(d) == IF d \in DOMAIN commentFiles THEN commentFiles[d].list ELSE <<>>

\* Rendering raises on a timestamp that strptime rejects.
Renders(issue, comments) ==
  /\ IsWireFormat(issue.created_at)
  /\ \A k \in 1..Len(comments) : IsWireFormat(comments[k].created_at)

\* The day of a timestamp, as a number that orders the model's timestamps.
DayOf(stamp) == IF stamp[1] = "2024-01-01" THEN 1 ELSE 2

\* The comments sorted by created_at, oldest first.
RECURSIVE OldestFirst(_)
OldestFirst(comments) ==
  IF comments = <<>> THEN <<>>
  ELSE LET k == CHOOSE i \in 1..Len(comments) :
                  \A j \in 1..Len(comments) :
                    \/ DayOf(comments[i].created_at) < DayOf(comments[j].created_at)
                    \/ /\ DayOf(comments[i].created_at) = DayOf(comments[j].created_at)
                       /\ i <= j
       IN <<comments[k]>>
          \o OldestFirst(SubSeq(comments, 1, k - 1)
                         \o SubSeq(comments, k + 1, Len(comments)))

\* The order in which "for comment in comments" takes the array: as it is.
InArrayOrder(comments) == [k \in 1..Len(comments) |-> comments[k]]

\* The text compose_thread joins: the header, the body, and the comments in the
\* order of the array when there are any.
Render(issue, comments) ==
  <<<<"Title", issue.title>>,
    <<"Created on", format_date(issue.created_at)>>,
    <<"INITIAL POST", issue.number>>>>
  \o (IF comments # <<>>
        THEN <<<<"COMMENTS", Len(comments)>>>>
             \o [k \in 1..Len(comments) |->
                   <<"On", format_date(InArrayOrder(comments)[k].created_at),
                     InArrayOrder(comments)[k].id>>]
        ELSE <<>>)

\* The test on the issue hash alone.
SkipsOnIssueHash(d, meta) ==
  d \in DOMAIN meta /\ meta[d].issue = current_hashes(d).issue

\* The test left out: every directory is rendered.
NeverSkips(d, meta) == FALSE

\* compose_thread's "nothing has changed" test.
SkipsCompose(d, meta) == d \in DOMAIN meta /\ meta[d] = current_hashes(d)

\* process_all_threads: load_compose_metadata, then the walk.
StartCompose ==
  /\ FetcherStopped
  /\ ComposerStopped
  /\ cpc' = "labels"
  /\ cmeta' = load_compose_metadata
  /\ walkLabels' = ComposeLabels
  /\ todo' = {}
  /\ directory' = NoDirectory
  /\ visited' = {}
  /\ wrote' = {}
  /\ cleanStart' = ~ dirty
  /\ UNCHANGED <<envVars, treeVars, fetchStore, fetchVars, composeOut, dirty>>

\* The directories label/slug/id that hold an issue.json.
IssueDirsUnder(l) == {d \in DOMAIN issueFiles : d[1] = l}

\* The walk enters the next label root; one that does not exist is passed over.
EnterLabel ==
  /\ cpc = "labels"
  /\ walkLabels # <<>>
  /\ todo' = IssueDirsUnder(Head(walkLabels))
  /\ walkLabels' = Tail(walkLabels)
  /\ directory' = NoDirectory
  /\ cpc' = IF IssueDirsUnder(Head(walkLabels)) = {} THEN "labels" ELSE "dirs"
  /\ UNCHANGED <<envVars, treeVars, fetchStore, fetchVars, composeOut, dirty,
                 cmeta, visited, wrote, cleanStart>>

\* os.listdir gives the slugs, and the ids under a slug, in no fixed order; the
\* ids of one slug are visited before the next slug is entered.
NextDirs ==
  IF \E d \in todo : d[2] = directory[2]
    THEN {d \in todo : d[2] = directory[2]}
    ELSE todo

\* The walk reaches an issue directory with an issue.json and calls compose_thread.
VisitDirectory ==
  /\ cpc = "dirs"
  /\ \E d \in NextDirs :
       /\ directory' = d
       /\ todo' = todo \ {d}
       /\ visited' = visited \cup {d}
  /\ cpc' = "compose"
  /\ UNCHANGED <<envVars, treeVars, fetchStore, fetchVars, composeOut, dirty,
                 cmeta, walkLabels, wrote, cleanStart>>

\* The exception caught in the walk, which goes on with the next directory.
SkipsOnRaise(left) == IF left = {} THEN "labels" ELSE "dirs"

\* Where the composer is after format_date raised in compose_thread: nothing
\* catches the ValueError, the process ends with a traceback.
AfterRaise(left) == "aborted"

\* compose_thread(directory, metadata).
compose_thread ==
  /\ cpc = "compose"
  /\ IF SkipsCompose(directory, cmeta)
       THEN /\ cpc' = IF todo = {} THEN "labels" ELSE "dirs"
            /\ UNCHANGED <<threadFiles, cmeta, wrote>>
       ELSE IF Renders(issueFiles[directory], CommentsOf(directory))
         THEN /\ threadFiles' = Put(threadFiles, directory,
                                    Render(issueFiles[directory], CommentsOf(directory)))
              /\ cmeta' = Put(cmeta, directory, current_hashes(directory))
              /\ wrote' = wrote \cup {directory}
              /\ cpc' = IF todo = {} THEN "labels" ELSE "dirs"
         ELSE /\ cpc' = AfterRaise(todo)
              /\ cmeta' = IF cpc' = "aborted" THEN EmptyMap ELSE cmeta
              /\ UNCHANGED <<threadFiles, wrote>>
  /\ UNCHANGED <<envVars, treeVars, fetchStore, fetchVars, composeStore, dirty,
                 walkLabels, todo, directory, visited, cleanStart, changes>>

\* process_all_threads after the walk: save_compose_metadata.
FinishCompose ==
  /\ cpc = "labels"
  /\ walkLabels = <<>>
  /\ composeStore' = <<cmeta>>
  /\ cpc' = "done"
  /\ cmeta' = EmptyMap
  /\ dirty' = FALSE
  /\ UNCHANGED <<envVars, treeVars, fetchStore, fetchVars, threadFiles,
                 walkLabels, todo, directory, visited, wrote, cleanStart, changes>>

\* The composer's process ends, after save_compose_metadata or on the
\* exception that compose_thread raised.
ComposerExits ==
  /\ cpc \in {"done", "aborted"}
  /\ cpc' = "idle"
  /\ directory' = NoDirectory
  /\ todo' = {}
  /\ walkLabels' = <<>>
  /\ visited' = {}
  /\ wrote' = {}
  /\ cleanStart' = FALSE
  /\ UNCHANGED <<envVars, treeVars, fetchStore, fetchVars, composeOut, dirty, cmeta>>

\* An issue.json is edited by hand between runs: its created_at is set.
EditIssueFile(d, stamp) ==
  /\ FetcherStopped
  /\ ComposerStopped
  /\ d \in DOMAIN issueFiles
  /\ issueFiles[d].created_at # stamp
  /\ changes < MaxChanges
  /\ issueFiles' = [issueFiles EXCEPT ![d].created_at = stamp]
  /\ dirty' = TRUE
  /\ changes' = changes + 1
  /\ UNCHANGED <<envVars, commentFiles, fetchStore, fetchVars, composeVars,
                 threadFiles, composeStore>>

\* A comments.json is edited by hand between runs: the created_at of its k-th
\* comment is set.
EditCommentsFile(d, k, stamp) ==
  /\ FetcherStopped
  /\ ComposerStopped
  /\ d \in DOMAIN commentFiles
  /\ k \in 1..Len(commentFiles[d].list)
  /\ commentFiles[d].list[k].created_at # stamp
  /\ changes < MaxChanges
  /\ commentFiles' = [commentFiles EXCEPT ![d].list[k].created_at = stamp]
  /\ dirty' = TRUE
  /\ changes' = changes + 1
  /\ UNCHANGED <<envVars, issueFiles, fetchStore, fetchVars, composeVars,
                 threadFiles, composeStore>>

\* A thread.md is deleted between runs.
DeleteThread(d) ==
  /\ FetcherStopped
  /\ ComposerStopped
  /\ d \in DOMAIN threadFiles
  /\ changes < MaxChanges
  /\ threadFiles' = [x \in DOMAIN threadFiles \ {d} |-> threadFiles[x]]
  /\ changes' = changes + 1
  /\ UNCHANGED <<envVars, treeVars, fetchStore, fetchVars, composeVars,
                 composeStore, dirty>>

Stamps == {WireStamp, OtherStamp}

Directories == VALID_LABELS \X {extract_slug(t) : t \in Titles} \X Issues

\* The issue objects the tracker can return now for issue i under label l.
TrackerPayloads(i, l) ==
  {[number |-> i, title |-> t, labels |-> remote[i].labels, created_at |-> WireStamp,
    updated_at |-> clock, comments |-> n] : t \in Titles, n \in {0, MaxComments}}

\* What a fetch run leaves in the tree for one issue it updates: the files
\* process_issue writes, the comment request failing or answered.
FetcherWrites(l, issue, outcome) ==
  /\ FetcherStopped
  /\ ComposerStopped
  /\ l \in issue.labels
  /\ <<IssueFilesAfter(issue, l), CommentFilesAfter(issue, l, outcome)>> # treeVars
  /\ issueFiles' = IssueFilesAfter(issue, l)
  /\ changes < MaxChanges
  /\ commentFiles' = CommentFilesAfter(issue, l, outcome)
  /\ dirty' = TRUE
  /\ changes' = changes + 1
  /\ UNCHANGED <<envVars, fetchStore, fetchVars, composeVars, threadFiles, composeStore>>

\* ------------------------------------------------------------ specification
\* Neither job has run: no store, no thread.md, no process.
NothingRun ==
  /\ clock = 1
  /\ lateChange = FALSE
  /\ threadFiles = EmptyMap
  /\ fetchStore = <<>>
  /\ composeStore = <<>>
  /\ fpc = "idle"
  /\ metadata = DefaultMetadata
  /\ labelsLeft = {}
  /\ label = None
  /\ page = 1
  /\ batch = <<>>
  /\ call = <<>>
  /\ status = 0
  /\ commentsFailed = {}
  /\ cpc = "idle"
  /\ cmeta = EmptyMap
  /\ walkLabels = <<>>
  /\ todo = {}
  /\ directory = NoDirectory
  /\ visited = {}
  /\ wrote = {}
  /\ dirty = TRUE
  /\ cleanStart = FALSE
  /\ changes = 0

\* A tracker without issues, an empty tree.
Init ==
  /\ \E ls \in LabelSets :
       remote = [i \in Issues |->
                   [updated_at |-> EpochStamp, title |-> TitlePlain,
                    labels |-> ls, comments |-> <<>>]]
  /\ issueFiles = EmptyMap
  /\ commentFiles = EmptyMap
  /\ NothingRun

\* The fetcher against the tracker; issue 1 is the one that is opened, edited
\* and commented on.
Next ==
  \/ Tick
  \/ \E t \in Titles : RemoteEdit(1, t)
  \/ RemoteComment(1)
  \/ RemoteDeleteComment(1)
  \/ StartFetch
  \/ NextLabel
  \/ FinishFetch
  \/ PageFails
  \/ PageArrives
  \/ ProcessNext
  \/ FetcherExits

Spec == Init /\ [][Next]_vars

\* The fetcher against a tracker whose answers may lag behind its state.
StaleNext ==
  \/ Next
  \/ StalePageArrives

StaleSpec == Init /\ [][StaleNext]_vars

\* The composer against a tree that fetch runs and edits by hand change
\* between its runs.
ComposeNext ==
  \/ StartCompose
  \/ EnterLabel
  \/ VisitDirectory
  \/ compose_thread
  \/ FinishCompose
  \/ ComposerExits
  \/ \E d \in Directories, stamp \in Stamps : EditIssueFile(d, stamp)
  \/ \E d \in Directories, k \in 1..(MaxComments + 1), stamp \in Stamps :
       EditCommentsFile(d, k, stamp)
  \/ \E d \in Directories : DeleteThread(d)
  \/ \E l \in VALID_LABELS, i \in Issues :
       \E issue \in TrackerPayloads(i, l) :
         \E outcome \in {Failed, [ok |-> TRUE, list |-> CommentList(issue.comments)]} :
           FetcherWrites(l, issue, outcome)

ComposeSpec == Init /\ [][ComposeNext]_vars

\* A tracker that has issue 1 under a label when the fetcher first runs.
PagingInit ==
  /\ \E ls \in LabelSets, t \in Titles :
       remote = [i \in Issues |->
                   [updated_at |-> IF i = 1 THEN 1 ELSE EpochStamp,
                    title |-> IF i = 1 THEN t ELSE TitlePlain,
                    labels |-> ls, comments |-> <<>>]]
  /\ issueFiles = EmptyMap
  /\ commentFiles = EmptyMap
  /\ NothingRun

\* The fetcher against that tracker, on which issue 2 is opened and edited:
\* a label has up to two issues, which a page of PerPage may not hold.
PagingNext ==
  \/ Tick
  \/ \E t \in Titles : RemoteEdit(2, t)
  \/ StartFetch
  \/ NextLabel
  \/ FinishFetch
  \/ PageFails
  \/ PageArrives
  \/ ProcessNext
  \/ FetcherExits

PagingSpec == PagingInit /\ [][PagingNext]_vars

\* A step of the fetcher's process.  The process is sequential and every
\* request has timeout=30: a run that can take a step takes one.
FetcherStep ==
  NextLabel \/ FinishFetch \/ PageFails \/ PageArrives \/ ProcessNext \/ FetcherExits

FairPagingSpec == PagingSpec /\ WF_vars(FetcherStep)

\* The arrays a comments.json may hold: up to MaxRendered comments with
\* different ids, each created on one of two days, in any order.
RECURSIVE CommentArrays(_)
CommentArrays(n) ==
  IF n = 0 THEN {<<>>}
  ELSE CommentArrays(n - 1)
       \cup {Append(a, [id |-> i, created_at |-> stamp]) :
               a \in {b \in CommentArrays(n - 1) : Len(b) = n - 1},
               i \in 1..MaxRendered, stamp \in {WireStamp, LaterStamp}}

DistinctIds(a) ==
  \A j \in 1..Len(a) : \A k \in 1..Len(a) : a[j].id = a[k].id => j = k

\* The issue.json of the record the rendering specification starts with.
RecordOf(t, n) ==
  [number |-> 1, title |-> t, labels |-> {"faro"}, created_at |-> WireStamp,
   updated_at |-> 1, comments |-> n]

\* A tree with one record under faro: an issue.json, and no comments.json or
\* one holding any of the arrays.
RenderInit ==
  /\ remote = [i \in Issues |->
                 [updated_at |-> EpochStamp, title |-> TitlePlain,
                  labels |-> {"faro"}, comments |-> <<>>]]
  /\ \E t \in Titles, a \in {b \in CommentArrays(MaxRendered) : DistinctIds(b)},
        present \in BOOLEAN :
       /\ present \/ a = <<>>
       /\ issueFiles = Put(EmptyMap, IssueDir("faro", RecordOf(t, Len(a))),
                           RecordOf(t, Len(a)))
       /\ commentFiles =
            IF present
              THEN Put(EmptyMap, IssueDir("faro", RecordOf(t, Len(a))),
                       [list |-> a, fetched_for |-> 1])
              ELSE EmptyMap
  /\ NothingRun

\* The composer run, and run again, over that tree.
RenderNext ==
  \/ StartCompose
  \/ EnterLabel
  \/ VisitDirectory
  \/ compose_thread
  \/ FinishCompose
  \/ ComposerExits

RenderSpec == RenderInit /\ [][RenderNext]_vars

\* ------------------------------------------------------------------ claims
\* The store file as the next run will load it.
Stored == load_metadata

\* The labels of the run whose fetch_and_process_issues call has returned.
SucceededLabels == VALID_LABELS \ (labelsLeft \cup {label})

\* The step is process_issue for the head of the batch.
ProcessStep == fpc = "batch" /\ batch' # batch

\* The step is a fatal abort of the fetcher.
AbortStep == fpc = "request" /\ fpc' = "aborted"

\* C1: after every fetch run, an issue under a configured label whose remote
\* updated_at is ahead of its stored watermark (or that has none) has
\* updated_at >= the stored last_fetch, so that the next run's query
\* since=last_fetch returns it: no update is lost.
NoUpdateLost ==
  \A i \in Issues : \A l \in VALID_LABELS \cap remote[i].labels :
    (/\ Exists(i)
     /\ \/ <<l, i>> \notin DOMAIN Stored.issues
        \/ remote[i].updated_at > Stored.issues[<<l, i>>].updated_at)
    => remote[i].updated_at >= Stored.last_fetch

\* C2: process_issue for an issue whose updated_at is not greater than the
\* watermark stored for its key writes no file, requests no comments and
\* leaves the watermark store as it is.
Incrementality ==
  [][(/\ ProcessStep
      /\ IssueKey(label, Head(batch)) \in DOMAIN metadata.issues
      /\ Head(batch).updated_at
           <= metadata.issues[IssueKey(label, Head(batch))].updated_at)
     => (/\ issueFiles' = issueFiles
         /\ commentFiles' = commentFiles
         /\ metadata' = metadata
         /\ call' # <<>>
         /\ call'[1].writes = {}
         /\ ~ call'[1].requested)]_vars

\* C2's case: process_issue returned for an issue that the watermark covers.
SkippedCoveredIssue ==
  /\ call # <<>>
  /\ call[1].skipped
  /\ IssueKey(call[1].label, call[1].issue) \in DOMAIN metadata.issues
  /\ call[1].issue.updated_at
       <= metadata.issues[IssueKey(call[1].label, call[1].issue)].updated_at

\* C3 as the spec states it: a run that aborts on one label after another
\* label succeeded leaves the store file with last_fetch moved to now.
PartialFailureAdvances ==
  [][(AbortStep /\ SucceededLabels # {})
     => (fetchStore' # <<>> /\ fetchStore'[1].last_fetch = clock)]_vars

\* C3 as the code has it: a run that aborts on one label after another label
\* succeeded leaves the store file, and so last_fetch, as it was.
PartialFailureKeepsStore ==
  [][(AbortStep /\ SucceededLabels # {}) => fetchStore' = fetchStore]_vars

\* C3's case: a run aborted after a label succeeded, at a time later than the
\* stored last_fetch.
AbortedAfterSuccess ==
  /\ fpc = "aborted"
  /\ SucceededLabels # {}
  /\ Stored.last_fetch < clock

\* C4: last_fetch never decreases in the store file, and the updated_at kept
\* for a key, in the file and in the run's memory, is only ever replaced by a
\* value greater than or equal to it.
WatermarksMonotonic ==
  [][/\ Stored'.last_fetch >= Stored.last_fetch
     /\ \A k \in DOMAIN Stored.issues \cap DOMAIN Stored'.issues :
          Stored'.issues[k].updated_at >= Stored.issues[k].updated_at
     /\ ProcessStep =>
          \A k \in DOMAIN metadata.issues :
            /\ k \in DOMAIN metadata'.issues
            /\ metadata'.issues[k].updated_at >= metadata.issues[k].updated_at]_vars

\* C4's case: a run that loaded a saved store has replaced the updated_at of a
\* key of that store by the greater updated_at of the issue it wrote.
WatermarkAdvanced ==
  /\ call # <<>>
  /\ ~ call[1].skipped
  /\ IssueKey(call[1].label, call[1].issue) \in DOMAIN Stored.issues
  /\ metadata.issues[IssueKey(call[1].label, call[1].issue)].updated_at
       > Stored.issues[IssueKey(call[1].label, call[1].issue)].updated_at
  /\ Stored.last_fetch > EpochStamp

\* What compose_thread has for the directory it is called with.
Unchanged(d) == d \in DOMAIN cmeta /\ cmeta[d] = current_hashes(d)

ComposeSkipped ==
  /\ threadFiles' = threadFiles
  /\ wrote' = wrote
  /\ cmeta' = cmeta
  /\ cpc' # "aborted"

ComposeRewrote(d) ==
  /\ d \in wrote'
  /\ d \in DOMAIN threadFiles'
  /\ threadFiles'[d] = Render(issueFiles[d], CommentsOf(d))
  /\ d \in DOMAIN cmeta'
  /\ cmeta'[d] = current_hashes(d)

ComposeRaised ==
  /\ cpc' = "aborted"
  /\ threadFiles' = threadFiles
  /\ wrote' = wrote
  /\ composeStore' = composeStore

ComposerIdempotent ==
  [][cleanStart' => (wrote' = {} /\ composeStore' = composeStore)]_vars

\* C6's case: such a second run has visited directories and saved the store.
SecondRunDone ==
  /\ cpc = "done"
  /\ cleanStart
  /\ visited # {}
  /\ composeStore # <<>>
  /\ visited \subseteq DOMAIN composeStore[1]

\* C7: after process_issue for an issue that needs updating, reports comments
\* and whose comment request failed, issue.json holds the new payload and the
\* directory has no comments.json.
FailedCommentsLeaveNoFile ==
  (/\ call # <<>>
   /\ ~ call[1].skipped
   /\ call[1].issue.comments > 0
   /\ ~ call[1].outcome.ok)
  => (/\ IssueDir(call[1].label, call[1].issue) \in DOMAIN issueFiles
      /\ issueFiles[IssueDir(call[1].label, call[1].issue)] = call[1].issue
      /\ IssueDir(call[1].label, call[1].issue) \notin DOMAIN commentFiles)

\* C8: a comments.json in a directory is the list fetched by the process_issue
\* call that wrote the directory's issue.json.
CommentsBelongToIssue ==
  \A d \in DOMAIN commentFiles :
    /\ d \in DOMAIN issueFiles
    /\ commentFiles[d].fetched_for = issueFiles[d].updated_at

\* C9: the tree holds at most one issue.json for a label and an issue id.
OneRecordPerIssue ==
  \A d \in DOMAIN issueFiles : \A e \in DOMAIN issueFiles :
    (d[1] = e[1] /\ d[3] = e[3]) => d = e

\* C10: a compose run that completes has passed to compose_thread every
\* directory with an issue.json under a configured label.
ComposerVisitsEveryRecord ==
  cpc = "done"
    => \A d \in DOMAIN issueFiles : d[1] \in VALID_LABELS => d \in visited

\* C11: a page request answered 401 or 403 ends the run at once: the step
\* writes no issue.json, no comments.json and no store, the process has exit
\* status 1, and from then on no page is requested, no label taken and no
\* issue processed; the same request is not made again: the process ends.
FatalStatusAbortsRun ==
  [][/\ (fpc = "request" /\ status' \in FatalStatuses)
          => (/\ fpc' = "aborted"
              /\ ExitStatus' = <<1>>
              /\ treeVars' = treeVars
              /\ fetchStore' = fetchStore)
     /\ (fpc = "aborted" /\ status \in FatalStatuses)
          => (/\ fpc' = "idle"
              /\ UNCHANGED <<treeVars, fetchStore, metadata, commentsFailed>>)]_vars

\* C11's case: a run was ended by a 401 or 403 on a later page of a label,
\* with another label still to be processed.
AbortedOnFatalStatus ==
  /\ fpc = "aborted"
  /\ status \in FatalStatuses
  /\ page > 1
  /\ labelsLeft # {}

\* The timestamps compose_thread formats for a directory are not all in the
\* wire format.
Malformed(d) == ~ Renders(issueFiles[d], CommentsOf(d))

\* C12: compose_thread called for a directory with a timestamp that is not in
\* the wire format, in its issue.json or in a comment of its comments.json,
\* ends the run: no thread.md is written for the directory, no directory is
\* visited after it, and the store file is not written; a run that does not
\* reach save_compose_metadata leaves the store file as it was before the run.
MalformedStampAborts ==
  [][/\ (cpc = "compose" /\ Malformed(directory))
          => (/\ cpc' = "aborted"
              /\ UNCHANGED <<threadFiles, composeStore, visited, wrote, todo>>)
     /\ cpc = "aborted"
          => (/\ cpc' = "idle"
              /\ UNCHANGED <<threadFiles, composeStore, treeVars>>)
     /\ (cpc \in {"labels", "dirs", "compose"} /\ cpc' # "done")
          => composeStore' = composeStore]_vars

\* C12's case: a run that loaded a saved store was ended by a comment's
\* timestamp, in a directory with a well-formed issue.json, with directories
\* of the label still to visit.
AbortedOnCommentStamp ==
  /\ cpc = "aborted"
  /\ composeStore # <<>>
  /\ todo # {}
  /\ IsWireFormat(issueFiles[directory].created_at)
  /\ \E k \in 1..Len(CommentsOf(directory)) :
       ~ IsWireFormat(CommentsOf(directory)[k].created_at)
  /\ directory \notin wrote

\* The tracker changed after the last completed fetch run ended.
ChangedSinceRun ==
  \/ lateChange
  \/ \E i \in Issues : remote[i].updated_at > fetchStore[1].last_fetch

\* Every issue under a configured label has, in the store file, the
\* updated_at the tracker has for it now: none was opened or changed since
\* the run that saved the store read it.
Synced ==
  /\ fetchStore # <<>>
  /\ \A i \in Issues : \A l \in VALID_LABELS \cap remote[i].labels :
       Exists(i) =>
         /\ <<l, i>> \in DOMAIN fetchStore[1].issues
         /\ fetchStore[1].issues[<<l, i>>].updated_at = remote[i].updated_at

\* process_issue returns without a write, a comment request or a change of
\* a watermark entry.
ProcessedAsNoOp ==
  /\ issueFiles' = issueFiles
  /\ commentFiles' = commentFiles
  /\ metadata'.issues = metadata.issues
  /\ call' # <<>>
  /\ call'[1].writes = {}
  /\ ~ call'[1].requested

\* C13 as the spec states it: in a fetch run after a completed run, with no
\* change of the tracker since that run ended, process_issue writes no
\* issue.json and no comments.json, requests no comments and leaves the
\* watermark entries as they are.
RerunIsNoOpSinceRunEnded ==
  [][(ProcessStep /\ fetchStore # <<>> /\ ~ ChangedSinceRun)
     => ProcessedAsNoOp]_vars

\* C13 as the code has it: in a fetch run after a completed run, with no
\* issue opened or changed since that run read it, process_issue writes no
\* issue.json and no comments.json, requests no comments and leaves the
\* watermark entries as they are, and the run saves the entries it loaded.
RerunIsNoOp ==
  [][/\ (ProcessStep /\ Synced) => ProcessedAsNoOp
     /\ (fpc = "main" /\ fpc' = "done" /\ Synced)
          => fetchStore'[1].issues = fetchStore[1].issues]_vars

\* C13's case: in a run after a completed run, with the tracker as that run
\* read it, the query returned an issue and process_issue has returned for it.
RerunProcessedIssue ==
  /\ Synced
  /\ call # <<>>
  /\ fpc \in {"request", "batch"}

CommentsFailedForHead ==
  <<label, Head(batch).number, Head(batch).updated_at>> \in commentsFailed

\* process_issue requests no comments and writes no comments.json.
NoCommentRetry ==
  /\ call' # <<>>
  /\ ~ call'[1].requested
  /\ commentFiles' = commentFiles

\* The watermark of a process_issue call whose comment request failed is the
\* updated_at of its issue.
WatermarkSetOnFailure ==
  (ProcessStep /\ call' # <<>> /\ call'[1].requested /\ ~ call'[1].outcome.ok)
    => (/\ IssueKey(label, Head(batch)) \in DOMAIN metadata'.issues
        /\ metadata'.issues[IssueKey(label, Head(batch))].updated_at
             = Head(batch).updated_at)

\* C15 as the spec states it: a failed comment request still sets the
\* watermark, and no later process_issue call for the issue at the same
\* updated_at requests the comments or writes comments.json.
CommentsRetriedOnlyOnUpdate ==
  [][/\ WatermarkSetOnFailure
     /\ (ProcessStep /\ CommentsFailedForHead) => NoCommentRetry]_vars

\* C15 as the code has it: a failed comment request still sets the watermark
\* in the run's memory, and once the store file holds that watermark no
\* later process_issue call for the issue at the same updated_at requests
\* the comments or writes comments.json.
CommentsRetriedOnlyOnUpdateOnceSaved ==
  [][/\ WatermarkSetOnFailure
     /\ (/\ ProcessStep
         /\ CommentsFailedForHead
         /\ fetchStore # <<>>
         /\ IssueKey(label, Head(batch)) \in DOMAIN fetchStore[1].issues
         /\ fetchStore[1].issues[IssueKey(label, Head(batch))].updated_at
              = Head(batch).updated_at)
          => NoCommentRetry]_vars

\* C15's case: a later run got the issue again at the updated_at of the
\* failed comment request, with the watermark saved, and process_issue
\* returned for it.
FailedCommentsNotRetried ==
  /\ call # <<>>
  /\ call[1].skipped
  /\ <<call[1].label, call[1].issue.number, call[1].issue.updated_at>> \in commentsFailed
  /\ fetchStore # <<>>
  /\ IssueKey(call[1].label, call[1].issue) \in DOMAIN fetchStore[1].issues

\* The thread has a COMMENTS section.
HasCommentsSection(text) == \E k \in 1..Len(text) : text[k][1] = "COMMENTS"

\* The comment headings of a thread, in the order of the text.
CommentHeadings(text) == SelectSeq(text, LAMBDA line : line[1] = "On")

\* C16: a thread.md this run wrote has a COMMENTS section exactly when the
\* directory has a comments.json holding a non-empty array, and its comment
\* headings are those of the array's comments, one for each, in the order of
\* the array.
CommentOrderPreserved ==
  \A d \in wrote :
    /\ HasCommentsSection(threadFiles[d])
         <=> (d \in DOMAIN commentFiles /\ commentFiles[d].list # <<>>)
    /\ Len(CommentHeadings(threadFiles[d])) = Len(CommentsOf(d))
    /\ \A k \in 1..Len(CommentsOf(d)) :
         CommentHeadings(threadFiles[d])[k]
           = <<"On", format_date(CommentsOf(d)[k].created_at), CommentsOf(d)[k].id>>

\* C16's case: a thread was rendered from an array whose first comment was
\* created after its second.
RenderedOutOfTimeOrder ==
  \E d \in wrote :
    /\ Len(CommentsOf(d)) >= 2
    /\ DayOf(CommentsOf(d)[1].created_at) > DayOf(CommentsOf(d)[2].created_at)
    /\ Len(CommentHeadings(threadFiles[d])) >= 2

\* C17: when a compose run has completed, every directory it visited has a
\* thread.md, and that thread.md is the rendering of the directory's
\* issue.json and comments.json as they are.
ThreadsCurrentAfterRun ==
  cpc = "done"
    => \A d \in visited :
         /\ d \in DOMAIN threadFiles
         /\ threadFiles[d] = Render(issueFiles[d], CommentsOf(d))

\* C18: every entry of the watermark store file names a directory that has an
\* issue.json, and that issue.json has an updated_at greater than or equal to
\* the entry's.
StoreNotAheadOfTree ==
  fetchStore # <<>> =>
    \A k \in DOMAIN fetchStore[1].issues :
      /\ fetchStore[1].issues[k].path \in DOMAIN issueFiles
      /\ issueFiles[fetchStore[1].issues[k].path].updated_at
           >= fetchStore[1].issues[k].updated_at

\* C18's case: a run wrote a newer issue.json into the directory a store
\* entry names and was then aborted, so the tree is ahead of the store file.
TreeAheadAfterAbort ==
  /\ fpc = "aborted"
  /\ fetchStore # <<>>
  /\ \E k \in DOMAIN fetchStore[1].issues :
       /\ fetchStore[1].issues[k].path \in DOMAIN issueFiles
       /\ issueFiles[fetchStore[1].issues[k].path].updated_at
            > fetchStore[1].issues[k].updated_at

====
